---- MODULE Spec2Model ----
(***************************************************************************)
(* Model of nspic's two browser scripts.                                   *)
(*                                                                         *)
(*   static/gallery.js : per gallery, an IntersectionObserver callback     *)
(*                       that toggles the "Active" class of the scroll     *)
(*                       indicators.                                       *)
(*   upload script     : postFile() and its upload progress listener.      *)
(*                                                                         *)
(* The two scripts run on different pages and share no state, so each has  *)
(* its own specification: Spec and SpecHistory (gallery), SpecUpload.       *)
(***************************************************************************)
EXTENDS Bags, Integers, Sequences, FiniteSets

(***************************************************************************)
(* Bounds of the model.                                                    *)
(***************************************************************************)
\* Number of <li> items, and of indicators, of each gallery on the page.
NumItems == 2
\* Largest number of entries the browser hands to one callback invocation.
MaxBatch == 2
\* Largest number of files selected in FilesToUpload, and largest size of one.
MaxFiles == 1
MaxFileSize == 1
\* Largest number of bytes the multipart body adds to the files' bytes.
MaxOverhead == 1
\* Largest number of uploads in flight at once.
MaxRequests == 2
\* Largest number of pieces ("/" or a run of other characters) of the page path.
MaxPath == 4

(***************************************************************************)
(* The gallery page: elements and notifications.                           *)
(***************************************************************************)
\* The ul.ScrollIndicators lists found on the page, one per gallery.
AllIndicatorLists == {"A", "B"}

\* The i-th <li> of gallery g's ul.ImageList.
Item(g, i) == <<"item", g, i>>

\* The i-th li.ScrollIndicator of gallery g's ul.ScrollIndicators.
Dot(g, i) == <<"dot", g, i>>

\* A DOM element that is an item of no gallery.
Stray == <<"stray", "none", 0>>

\* Every li.ScrollIndicator of the page.
AllDots == {Dot(g, i) : g \in AllIndicatorLists, i \in 1..NumItems}

\* Post.querySelectorAll("ul.ImageList > li"), in document order.
Images(g) == [i \in 1..NumItems |-> Item(g, i)]

\* Mutant of Indicators: document.querySelectorAll, every indicator of the page.
IndicatorsOfPage(g) ==
    [k \in 1..(2 * NumItems) |->
        IF k <= NumItems THEN Dot("A", k) ELSE Dot("B", k - NumItems)]

\* indi_list.querySelectorAll("li.ScrollIndicator"), in document order.
Indicators(g) == [i \in 1..NumItems |-> Dot(g, i)]

\* The threshold the observer is created with, in hundredths.
Threshold == 60

\* intersectionRatio in hundredths: just below the threshold, on it, and 1.0.
Ratios == {Threshold - 1, Threshold, 100}

\* The targets tried on gallery g: the items it observes and one it does not.
Targets(g) == {Images(g)[i] : i \in 1..NumItems} \cup {Stray}

Entries(g) == [target : Targets(g), isIntersecting : BOOLEAN, intersectionRatio : Ratios]

NoEntry == [target |-> Stray, isIntersecting |-> FALSE, intersectionRatio |-> -1]

\* The batches of entries the browser may hand to gallery g's callback.
Batches(g) == UNION {[1..k -> Entries(g)] : k \in 1..MaxBatch}

VARIABLES
    Active,       \* the li.ScrollIndicator elements whose classList holds "Active"
    hg,           \* history: the gallery whose callback ran last ("none" at load)
    single,       \* history: the entry of the last batch if it had exactly one
    again,        \* history: the last batch repeated the single entry before it
    zeroStart,    \* history: gallery g was loaded with no indicator Active
    qualified,    \* history: g's callback has seen isIntersecting with ratio >= 0.6
    lastTracked,  \* history: position in Images(g) of the target of the last such
                  \*          entry whose target is an item of g; 0 if none yet
    observing,    \* observing[g]: the items gallery g's Observer observes
    alone,        \* history (SpecInterleave): alone[g] is the Active indicators
                  \*          of g on a page where g's batches were the only ones
    pathname,     \* url.pathname of the upload page, as a sequence of pieces
    serve_prefix, \* the script's serve_prefix, as a sequence of pieces
    posted,       \* the path request.open was given; empty before postFile
    requests,     \* the uploads in flight, a bag: for each the total_size its
                  \* listener closed over, e.total, the e.loaded of its last
                  \* event, and what its listener last wrote to the bar
    bar,          \* ProgressBar's width and label
    complete,     \* history: the last progress event had e.loaded = e.total
    before,       \* history: what the listener of the last progress event had
                  \*          last written to the bar before that event
    wrote         \* history: what the last progress event wrote to the bar, in order

gvars == <<Active, hg, single, again, zeroStart, qualified, lastTracked, observing, alone>>
uvars == <<pathname, serve_prefix, posted, requests, bar, complete, before, wrote>>
vars == <<gvars, uvars>>

(***************************************************************************)
(* gallery.js                                                              *)
(***************************************************************************)
\* Mutant of indexOf: the 1-based position, 0 if absent.
indexOfOneBased(arr, x) ==
    IF \E i \in 1..Len(arr) : arr[i] = x
    THEN CHOOSE i \in 1..Len(arr) : arr[i] = x
    ELSE 0

\* Array.prototype.indexOf: 0-based position of the first match, -1 if absent.
indexOf(arr, x) ==
    IF \E i \in 1..Len(arr) : arr[i] = x
    THEN (CHOOSE i \in 1..Len(arr) : arr[i] = x /\ \A j \in 1..(i - 1) : arr[j] # x) - 1
    ELSE -1

\* Mutant of activateIndicator: classList.add on the indexed one, others kept.
activateIndicatorAddOnly(cls, inds, index) ==
    cls \cup {inds[i] : i \in {j \in 1..Len(inds) : j - 1 = index}}

\* Mutant of activateIndicator: toggle("Active") without the force argument on
\* the indexed one, the class removed from the others.
activateIndicatorFlip(cls, inds, index) ==
    LET hit == {inds[i] : i \in {j \in 1..Len(inds) : j - 1 = index}}
    IN  (cls \ {inds[i] : i \in 1..Len(inds)}) \cup (hit \ cls)

\* activateIndicator(index): classList.toggle("Active", i === index) on every
\* element of the gallery's Indicators; cls is the set of elements with the class.
activateIndicator(cls, inds, index) ==
    (cls \ {inds[i] : i \in 1..Len(inds)}) \cup {inds[i] : i \in {j \in 1..Len(inds) : j - 1 = index}}

\* Mutant of Qualifies: the ratio compared with > instead of >=.
QualifiesStrict(entry) ==
    entry.isIntersecting /\ entry.intersectionRatio > Threshold

\* Mutant of Qualifies: the ratio alone, isIntersecting not consulted.
QualifiesRatioOnly(entry) ==
    entry.intersectionRatio >= Threshold

\* The test of line 19.
Qualifies(entry) ==
    entry.isIntersecting /\ entry.intersectionRatio >= Threshold

\* The body of entries.forEach for gallery g: one entry.
handleEntry(g, cls, entry) ==
    IF Qualifies(entry)
    THEN activateIndicator(cls, Indicators(g), indexOf(Images(g), entry.target))
    ELSE cls

\* onIntersectionObserved(entries) of gallery g: the entries in delivery order.
RECURSIVE onIntersectionObserved(_, _, _)
onIntersectionObserved(g, cls, entries) ==
    IF entries = <<>> THEN cls
    ELSE onIntersectionObserved(g, handleEntry(g, cls, Head(entries)), Tail(entries))

(***************************************************************************)
(* History of the notifications, recorded from the entries alone.          *)
(***************************************************************************)
\* The entry reports intersecting with a ratio of at least 0.6.
Meets(entry) == entry.isIntersecting /\ entry.intersectionRatio * 10 >= 6 * 100

\* 1-based position of element x among gallery g's items, 0 if it is none of them.
Position(g, x) ==
    IF \E i \in 1..NumItems : Item(g, i) = x
    THEN CHOOSE i \in 1..NumItems : Item(g, i) = x
    ELSE 0

RECURSIVE LastTrackedOf(_, _, _)
LastTrackedOf(g, entries, prev) ==
    IF entries = <<>> THEN prev
    ELSE LET e == Head(entries)
             p == IF Meets(e) /\ Position(g, e.target) # 0
                  THEN Position(g, e.target) ELSE prev
         IN  LastTrackedOf(g, Tail(entries), p)

\* The li.ScrollIndicator elements of gallery g.
DotsOf(g) == {Dot(g, i) : i \in 1..NumItems}

\* The indicators of gallery g that are Active, as positions 1..NumItems.
ActiveOf(g) == {i \in 1..NumItems : Dot(g, i) \in Active}

(***************************************************************************)
(* The upload page is not loaded while the gallery page runs.              *)
(***************************************************************************)
NoBar == [kind |-> "markup", n |-> 0]

\* No upload page: no page path examined, no prefix found.
UploadPageAbsent ==
    /\ pathname = <<"/">>
    /\ serve_prefix = <<>>

UploadIdle ==
    /\ posted = <<>>
    /\ requests = EmptyBag
    /\ bar = NoBar
    /\ complete = FALSE
    /\ before = NoBar
    /\ wrote = <<>>

(***************************************************************************)
(* The gallery page.                                                       *)
(***************************************************************************)
\* Page load: the forEach of lines 3-36 collects Images and Indicators of every
\* gallery and observes the items. It touches no classList: which indicators
\* are Active is what the markup says.
Init ==
    /\ Active \in SUBSET AllDots
    /\ hg = "none"
    /\ single = NoEntry
    /\ again = FALSE
    /\ zeroStart = [g \in AllIndicatorLists |-> \A i \in 1..NumItems : Dot(g, i) \notin Active]
    /\ qualified = [g \in AllIndicatorLists |-> FALSE]
    /\ lastTracked = [g \in AllIndicatorLists |-> 0]
    /\ observing = [g \in AllIndicatorLists |-> {Images(g)[i] : i \in 1..NumItems}]
    /\ alone = [g \in AllIndicatorLists |-> {}]
    /\ UploadPageAbsent
    /\ UploadIdle

\* The browser invokes gallery g's callback with a batch of one entry.
\* History kept: the gallery, the entry, and whether it repeats the one before.
Notify(g, entry) ==
    /\ Active' = onIntersectionObserved(g, Active, <<entry>>)
    /\ hg' = g
    /\ single' = entry
    /\ again' = (hg = g /\ single = entry)
    /\ UNCHANGED <<zeroStart, qualified, lastTracked, observing, alone, uvars>>

Next == \E g \in AllIndicatorLists : \E entry \in Entries(g) : Notify(g, entry)

Spec == Init /\ [][Next]_vars

\* The callback of gallery g handles a batch; the history of what each
\* gallery has been notified of so far is brought up to date.
Logged(g, entries) ==
    /\ Active' = onIntersectionObserved(g, Active, entries)
    /\ qualified' = [qualified EXCEPT ![g] = @ \/ \E k \in 1..Len(entries) : Meets(entries[k])]
    /\ lastTracked' = [lastTracked EXCEPT ![g] = LastTrackedOf(g, entries, @)]
    /\ UNCHANGED <<hg, single, again, zeroStart, observing, uvars>>

\* The browser invokes gallery g's callback with a batch of up to MaxBatch
\* entries. History kept: what each gallery has been notified of so far.
NotifyLogged(g, entries) ==
    /\ Logged(g, entries)
    /\ UNCHANGED alone

NextHistory == \E g \in AllIndicatorLists : \E entries \in Batches(g) : NotifyLogged(g, entries)

SpecHistory == Init /\ [][NextHistory]_vars

(***************************************************************************)
(* The gallery page from its markup on: the script's run at load, then the *)
(* callbacks.                                                              *)
(***************************************************************************)
\* Mutant of initGallery: the first indicator is made Active at load.
initGalleryActivatesFirst(g, cls) ==
    activateIndicator(cls, Indicators(g), 0)

\* One pass of the forEach body (lines 4-12 and 33-35) for gallery g, as it
\* acts on the classLists: it queries, creates the Observer and observes, and
\* calls neither toggle nor activateIndicator.
initGallery(g, cls) == cls

\* AllIndicatorLists.forEach: the body for every gallery of the page.
RECURSIVE initGalleries(_, _)
initGalleries(lists, cls) ==
    IF lists = {} THEN cls
    ELSE LET g == CHOOSE x \in lists : TRUE
         IN  initGalleries(lists \ {g}, initGallery(g, cls))

\* The page as the markup delivers it, before gallery.js runs.
InitMarkup ==
    /\ Active \in SUBSET AllDots
    /\ hg = "none"
    /\ single = NoEntry
    /\ again = FALSE
    /\ zeroStart = [g \in AllIndicatorLists |-> \A i \in 1..NumItems : Dot(g, i) \notin Active]
    /\ qualified = [g \in AllIndicatorLists |-> FALSE]
    /\ lastTracked = [g \in AllIndicatorLists |-> 0]
    /\ observing = [g \in AllIndicatorLists |-> {}]
    /\ alone = [g \in AllIndicatorLists |-> {}]
    /\ UploadPageAbsent
    /\ UploadIdle

\* gallery.js runs: for every gallery an Observer is created and every item
\* of the gallery is observed.
pageLoad ==
    /\ \A g \in AllIndicatorLists : observing[g] = {}
    /\ Active' = initGalleries(AllIndicatorLists, Active)
    /\ observing' = [g \in AllIndicatorLists |-> {Images(g)[i] : i \in 1..NumItems}]
    /\ UNCHANGED <<hg, single, again, zeroStart, qualified, lastTracked, alone, uvars>>

\* A callback runs only for a gallery whose Observer observes something.
NextLoad ==
    \/ pageLoad
    \/ \E g \in AllIndicatorLists : \E entries \in Batches(g) :
          observing[g] # {} /\ NotifyLogged(g, entries)

SpecLoad == InitMarkup /\ [][NextLoad]_vars

(***************************************************************************)
(* The callbacks of the two galleries interleaved, each gallery's own       *)
(* notifications replayed on the side. A batch is handled entry by entry   *)
(* in its order and no other callback runs in between, so the              *)
(* interleavings of one-entry batches include those of longer ones.        *)
(***************************************************************************)
InitInterleave ==
    /\ Active \in SUBSET AllDots
    /\ hg = "none"
    /\ single = NoEntry
    /\ again = FALSE
    /\ zeroStart = [g \in AllIndicatorLists |-> \A i \in 1..NumItems : Dot(g, i) \notin Active]
    /\ qualified = [g \in AllIndicatorLists |-> FALSE]
    /\ lastTracked = [g \in AllIndicatorLists |-> 0]
    /\ observing = [g \in AllIndicatorLists |-> {Images(g)[i] : i \in 1..NumItems}]
    /\ alone = [g \in AllIndicatorLists |-> Active \cap DotsOf(g)]
    /\ UploadPageAbsent
    /\ UploadIdle

\* The browser invokes gallery g's callback with a batch of one entry; the
\* same entry is handled on the page where g's notifications are the only ones.
NotifyInterleaved(g, entry) ==
    /\ Logged(g, <<entry>>)
    /\ alone' = [alone EXCEPT ![g] = onIntersectionObserved(g, @, <<entry>>) \cap DotsOf(g)]

NextInterleave ==
    \E g \in AllIndicatorLists : \E entry \in Entries(g) : NotifyInterleaved(g, entry)

SpecInterleave == InitInterleave /\ [][NextInterleave]_vars

(***************************************************************************)
(* The upload script.                                                      *)
(***************************************************************************)
\* The pieces a page path is made of: the slash, and runs of other characters,
\* among them "upload" in two spellings.
Pieces == {"/", "upload", "UpLoad", "pics"}

\* url.pathname of a page: it begins with a slash.
Paths == {path \in UNION {[1..k -> Pieces] : k \in 1..MaxPath} : path[1] = "/"}

\* A piece with its letters in lower case: how the "i" flag compares.
Fold(piece) == IF piece = "UpLoad" THEN "upload" ELSE piece

\* Mutant of IsUploadTail: the RegExp without the "i" flag.
IsUploadTailCaseSensitive(rest) ==
    /\ Len(rest) \in {2, 3}
    /\ rest[1] = "/"
    /\ rest[2] = "upload"
    /\ Len(rest) = 3 => rest[3] = "/"

\* rest matches /upload/?$ of the RegExp of line 2, letters in either case.
IsUploadTail(rest) ==
    /\ Len(rest) \in {2, 3}
    /\ rest[1] = "/"
    /\ Fold(rest[2]) = "upload"
    /\ Len(rest) = 3 => rest[3] = "/"

\* url.pathname.match(new RegExp("^(/.*)?/upload/?$", "i")): group holds
\* match[1] when the group took part (the greedy .* takes the longest prefix
\* that lets the rest match) and is empty when match[1] is undefined.
pathnameMatch(path) ==
    LET ks == {k \in 1..Len(path) :
                  path[1] = "/" /\ IsUploadTail(SubSeq(path, k + 1, Len(path)))}
    IN  IF ks # {}
        THEN [matched |-> TRUE,
              group |-> <<SubSeq(path, 1, CHOOSE k \in ks : \A j \in ks : j <= k)>>]
        ELSE [matched |-> IsUploadTail(path), group |-> <<>>]

\* Lines 4-8: serve_prefix is match[1] when there is a match and the group
\* took part, and "" otherwise.
servePrefix(path) ==
    LET match == pathnameMatch(path)
    IN  IF match.matched /\ match.group # <<>> THEN match.group[1] ELSE <<>>

\* Math.round of the exact quotient num / den of two naturals, den > 0: the
\* nearest integer, halves up.
MathRound(num, den) == (2 * num + den) \div (2 * den)

\* num / den rounded to the nearest integer, a half to the even one: how a
\* double's 53 bits are rounded.
RoundHalfEven(num, den) ==
    LET floor == num \div den
        rest == num % den
    IN  IF 2 * rest < den THEN floor
        ELSE IF 2 * rest > den THEN floor + 1
        ELSE IF floor % 2 = 0 THEN floor ELSE floor + 1

RECURSIVE DoubleExponent(_, _, _)
\* The least exponent from e on that brings num / den, times 2^e, to 2^52.
DoubleExponent(num, den, e) ==
    IF num * 2^e >= 2^52 * den THEN e ELSE DoubleExponent(num, den, e + 1)

\* The double nearest to num / den, for 0 < num / den < 2^53: its value is
\* m / 2^e with m of 53 bits.
Double(num, den) ==
    LET e == DoubleExponent(num, den, 0)
    IN  [m |-> RoundHalfEven(num * 2^e, den), e |-> e]

\* Line 24 as the doubles compute it, for 0 < loaded <= size: the quotient
\* e.loaded / total_size is rounded to a double, its product with 100 is
\* rounded to a double, and Math.round takes that to the nearest integer,
\* halves up.
percentInDoubles(loaded, size) ==
    LET quotient == Double(loaded, size)
        product == Double(quotient.m * 100, 2^quotient.e)
    IN  (2 * product.m + 2^product.e) \div 2^(product.e + 1)

\* While total_size is below 2 * 10^13 the doubles of line 24 miss the exact
\* percentage by less than its distance from any n + 1/2 it is not equal to,
\* so percentInDoubles differs from MathRound only where the exact percentage
\* is n + 1/2 and the double is below it. The quotient e.loaded / total_size
\* is then (2n + 1) / 200 whatever the two numbers are, and these are the n
\* for which the double of (2n + 1) / 200, times 100, is a double below
\* n + 1/2.
FallsShortOfHalf == {14, 28, 56, 57}

NaN == [kind |-> "NaN", n |-> 0]

Percent(k) == [kind |-> "percent", n |-> k]

\* Mutant of percent: the share of the files' bytes still to send.
percentOfRemaining(loaded, size) ==
    IF size = 0
    THEN NaN
    ELSE Percent(MathRound((size - loaded) * 100, size))

\* Line 24: Math.round(e.loaded / total_size * 100), for loaded <= size;
\* 0 / 0 is NaN. Up to a total_size of 10^7 the value of percentInDoubles is
\* computed in numbers of 31 bits, from the exact quotient and the halves that
\* fall short.
percent(loaded, size) ==
    IF size = 0 THEN NaN
    ELSE IF loaded = 0 THEN Percent(0)
    ELSE IF size > 10000000 THEN Percent(percentInDoubles(loaded, size))
    ELSE LET n == (loaded * 100) \div size
         IN  IF 200 * loaded = (2 * n + 1) * size /\ n \in FallsShortOfHalf
             THEN Percent(n)
             ELSE Percent(MathRound(loaded * 100, size))

RECURSIVE DoubleShift(_, _)
\* The least k from k on for which n is below 2^(53 + k): the bits of n that a
\* double cannot hold.
DoubleShift(n, k) == IF n < 2^(53 + k) THEN k ELSE DoubleShift(n, k + 1)

\* The double nearest to the natural n: n itself up to 2^53, and n rounded to
\* 53 bits above.
DoubleOf(n) ==
    IF n <= 2147483647
    THEN n
    ELSE LET k == DoubleShift(n, 0)
         IN  RoundHalfEven(n, 2^k) * 2^k

RECURSIVE SumSizes(_)
\* The loop of lines 15-19 over files_control.files: total_size starts at 0
\* and line 18 adds the sizes in order, each sum rounded to a double. A file
\* is given by its size as the script reads it, a double.
SumSizes(files) ==
    IF files = <<>>
    THEN 0
    ELSE DoubleOf(SumSizes(SubSeq(files, 1, Len(files) - 1)) + files[Len(files)])

RECURSIVE FilesBytes(_)
\* The bytes of the files in the request body.
FilesBytes(files) ==
    IF files = <<>> THEN 0 ELSE Head(files) + FilesBytes(Tail(files))

\* The selections of FilesToUpload, each file given by its size.
Selections == UNION {[1..k -> 0..MaxFileSize] : k \in 0..MaxFiles}

\* Sizes at which line 24 rounds down and up (thirds of 3), rounds a half up
\* (eighths of 8) and falls short of a half (23 of 40; 29, 57 and 113 of 200).
RoundingSizes == {3, 8, 40, 200}

\* The selections of Selections, and those of one file of a size of
\* RoundingSizes.
SelectionsWide == Selections \cup {<<size>> : size \in RoundingSizes}

\* Mutant of progressWrites: the second test compares e.loaded with total_size.
progressWritesSizeEnd(loaded, total, size) ==
    (IF loaded <= size THEN <<percent(loaded, size)>> ELSE <<>>)
        \o (IF loaded = size THEN <<Percent(100)>> ELSE <<>>)

\* The writes of the progress listener (lines 23-32) for one event, in order.
progressWrites(loaded, total, size) ==
    (IF loaded <= size THEN <<percent(loaded, size)>> ELSE <<>>)
        \o (IF loaded = total THEN <<Percent(100)>> ELSE <<>>)

\* The upload page once its script has run lines 1-8, before postFile: no
\* gallery on it.
InitUpload ==
    /\ Active = {}
    /\ hg = "none"
    /\ single = NoEntry
    /\ again = FALSE
    /\ zeroStart = [g \in AllIndicatorLists |-> TRUE]
    /\ qualified = [g \in AllIndicatorLists |-> FALSE]
    /\ lastTracked = [g \in AllIndicatorLists |-> 0]
    /\ observing = [g \in AllIndicatorLists |-> {}]
    /\ alone = [g \in AllIndicatorLists |-> {}]
    /\ pathname \in Paths
    /\ serve_prefix = servePrefix(pathname)
    /\ UploadIdle

\* postFile(): sums the sizes of the selected files, creates a request with
\* a progress listener and sends it; the body is the files plus the Desc field
\* and the multipart framing, overhead bytes in all, and its size is the
\* e.total of the request's progress events. Nothing keeps postFile from being
\* called again.
postFile(files, overhead) ==
    /\ requests' = requests (+) SetToBag({[total_size |-> SumSizes(files),
                                           total |-> DoubleOf(FilesBytes(files) + overhead),
                                           loaded |-> 0,
                                           shown |-> NoBar]})
    /\ posted' = serve_prefix \o <<"/", "upload", "/">>
    /\ UNCHANGED <<pathname, serve_prefix, bar, complete, before, wrote, gvars>>

\* A progress event of the upload of request, one of those in flight, with
\* e.loaded = loaded and e.total the size of the request's body; the listener
\* of lines 22-33 handles it. Events with e.loaded = e.total may come more
\* than once.
progress(request, loaded) ==
    /\ BagIn(request, requests)
    /\ request.loaded <= loaded
    /\ loaded <= request.total
    /\ LET w == progressWrites(loaded, request.total, request.total_size)
           last == IF w = <<>> THEN request.shown ELSE w[Len(w)]
       IN  /\ wrote' = w
           /\ before' = request.shown
           /\ bar' = IF w = <<>> THEN bar ELSE w[Len(w)]
           /\ requests' = (requests (-) SetToBag({request}))
                              (+) SetToBag({[request EXCEPT !.loaded = loaded,
                                                            !.shown = last]})
    /\ complete' = (loaded = request.total)
    /\ UNCHANGED <<pathname, serve_prefix, posted, gvars>>

\* The upload of request ends after a progress event with e.loaded = e.total:
\* its listener is called no more. The script listens to no event of the end.
loadend(request) ==
    /\ BagIn(request, requests)
    /\ request.loaded = request.total
    /\ request.shown = Percent(100)
    /\ requests' = requests (-) SetToBag({request})
    /\ UNCHANGED <<pathname, serve_prefix, posted, bar, complete, before, wrote, gvars>>

\* The page used for one upload at a time: postFile is called when no upload
\* is in flight.
NextUpload ==
    \/ /\ requests = EmptyBag
       /\ \E files \in Selections : \E overhead \in 1..MaxOverhead : postFile(files, overhead)
    \/ \E request \in BagToSet(requests) :
          \E loaded \in 0..(MaxFiles * MaxFileSize + MaxOverhead) : progress(request, loaded)
    \/ \E request \in BagToSet(requests) : loadend(request)

SpecUpload == InitUpload /\ [][NextUpload]_vars

\* The upload page at /upload.
InitOverlap ==
    /\ Active = {}
    /\ hg = "none"
    /\ single = NoEntry
    /\ again = FALSE
    /\ zeroStart = [g \in AllIndicatorLists |-> TRUE]
    /\ qualified = [g \in AllIndicatorLists |-> FALSE]
    /\ lastTracked = [g \in AllIndicatorLists |-> 0]
    /\ observing = [g \in AllIndicatorLists |-> {}]
    /\ alone = [g \in AllIndicatorLists |-> {}]
    /\ pathname = <<"/", "upload">>
    /\ serve_prefix = servePrefix(pathname)
    /\ UploadIdle

\* The page with postFile called at any time, also while uploads are in
\* flight; their progress events come in any order.
NextOverlap ==
    \/ /\ BagCardinality(requests) < MaxRequests
       /\ \E files \in Selections : \E overhead \in 1..MaxOverhead : postFile(files, overhead)
    \/ \E request \in BagToSet(requests) :
          \E loaded \in 0..(MaxFiles * MaxFileSize + MaxOverhead) : progress(request, loaded)
    \/ \E request \in BagToSet(requests) : loadend(request)

SpecOverlap == InitOverlap /\ [][NextOverlap]_vars

\* The page at /upload used for one upload at a time, with the selections of
\* SelectionsWide. The listener takes e.total from the event and the script
\* relates it to total_size nowhere: here the body may also be no larger than
\* the files, so that e.loaded = e.total can pass the test of line 23.
NextProgress ==
    \/ /\ requests = EmptyBag
       /\ \E files \in SelectionsWide : \E overhead \in 0..MaxOverhead :
             postFile(files, overhead)
    \/ \E request \in BagToSet(requests) :
          \E loaded \in request.loaded..request.total : progress(request, loaded)
    \/ \E request \in BagToSet(requests) : loadend(request)

SpecProgress == InitOverlap /\ [][NextProgress]_vars

(***************************************************************************)
(* Properties of the gallery script.                                       *)
(***************************************************************************)
\* C1: a gallery loaded with no indicator Active has at most one indicator
\* Active in every state, whatever batches its callback and the other
\* gallery's callback are given.
C1_AtMostOneActive ==
    \A g \in AllIndicatorLists : zeroStart[g] => Cardinality(ActiveOf(g)) <= 1

\* A gallery loaded with none Active whose callback has activated an indicator.
C1_Witness ==
    \E g \in AllIndicatorLists :
        /\ zeroStart[g]
        /\ lastTracked[g] # 0
        /\ ActiveOf(g) = {lastTracked[g]}

\* C2: a notification whose target is not one of the gallery's items leaves
\* every indicator as it was, also when it reports intersecting with a ratio
\* of at least 0.6.
C2_UntrackedLeavesUnchanged ==
    [][\A g \in AllIndicatorLists :
          (hg' = g /\ Position(g, single'.target) = 0) => Active' = Active]_vars

\* C3: once a gallery has been notified of a tracked item intersecting with a
\* ratio of at least 0.6, its Active indicator is the one of the item of the
\* last such notification, in delivery order across and within batches.
C3_LastQualifyingWins ==
    \A g \in AllIndicatorLists :
        lastTracked[g] # 0 => ActiveOf(g) = {lastTracked[g]}

\* C4: the threshold is inclusive. A notification for the tracked item i that
\* reports intersecting with ratio exactly 0.6 makes indicator i Active; one
\* that reports intersecting with a ratio below 0.6 changes no indicator.
C4_ThresholdInclusive ==
    [][\A g \in AllIndicatorLists : \A i \in 1..NumItems :
          (hg' = g /\ single'.target = Item(g, i) /\ single'.isIntersecting) =>
              /\ single'.intersectionRatio = 60 => Dot(g, i) \in Active'
              /\ single'.intersectionRatio < 60 => Active' = Active]_vars

\* A notification with ratio exactly 0.6 has made its item's indicator the
\* Active one.
C4_Witness ==
    \E g \in AllIndicatorLists : \E i \in 1..NumItems :
        /\ hg = g
        /\ single = [target |-> Item(g, i), isIntersecting |-> TRUE, intersectionRatio |-> 60]
        /\ ActiveOf(g) = {i}

\* C5: a notification that reports not intersecting, whatever its ratio, or
\* intersecting with a ratio below 0.6, changes no indicator of any gallery.
C5_IgnoredLeavesUnchanged ==
    [][(~single'.isIntersecting \/ single'.intersectionRatio < 60) =>
          Active' = Active]_vars

\* A notification that reports not intersecting with a ratio of at least 0.6
\* has been handled for a tracked item whose indicator is not Active while
\* another one is.
C5_Witness ==
    \E g \in AllIndicatorLists : \E i \in 1..NumItems :
        /\ hg = g
        /\ single.target = Item(g, i)
        /\ ~single.isIntersecting
        /\ single.intersectionRatio >= 60
        /\ Dot(g, i) \notin Active
        /\ ActiveOf(g) # {}

\* C6: once a gallery has been notified of a tracked item intersecting with a
\* ratio of at least 0.6, exactly one of its indicators is Active in every
\* later state.
C6_ExactlyOneAfterFirst ==
    \A g \in AllIndicatorLists :
        lastTracked[g] # 0 => Cardinality(ActiveOf(g)) = 1

\* C7: the callback of gallery g leaves the indicators of every other gallery
\* as they were; when the other gallery has exactly its index-1 indicator
\* Active and g is notified of its own index-1 item, each has exactly its own
\* index-1 indicator Active afterwards.
C7_GalleriesIsolated ==
    [][\A g \in AllIndicatorLists : \A h \in AllIndicatorLists \ {g} :
          hg' = g =>
              /\ ActiveOf(h)' = ActiveOf(h)
              /\ ( /\ ActiveOf(h) = {2}
                   /\ single'.target = Item(g, 2)
                   /\ single'.isIntersecting
                   /\ single'.intersectionRatio >= 60 )
                 => (ActiveOf(g)' = {2} /\ ActiveOf(h)' = {2})]_vars

\* Both galleries have exactly their index-1 indicator Active, B having just
\* been notified of its index-1 item.
C7_Witness ==
    /\ hg = "B"
    /\ single.target = Item("B", 2)
    /\ single.isIntersecting
    /\ single.intersectionRatio >= 60
    /\ ActiveOf("A") = {2}
    /\ ActiveOf("B") = {2}

\* C8: handling again the notification just handled, one that reports
\* intersecting with a ratio of at least 0.6, changes no indicator.
C8_Idempotent ==
    [][(again' /\ single'.isIntersecting /\ single'.intersectionRatio >= 60) =>
          Active' = Active]_vars

\* The notification of a tracked item has been handled twice in a row and the
\* item's indicator is the Active one.
C8_Witness ==
    \E g \in AllIndicatorLists : \E i \in 1..NumItems :
        /\ again
        /\ hg = g
        /\ single.target = Item(g, i)
        /\ single.isIntersecting
        /\ single.intersectionRatio >= 60
        /\ ActiveOf(g) = {i}

\* C10: after a notification of the tracked item at index i that reports
\* intersecting with a ratio of at least 0.6, indicator i is Active and no
\* other indicator of the gallery is.
C10_ActivationPostcondition ==
    \A g \in AllIndicatorLists : \A i \in 1..NumItems :
        ( /\ hg = g
          /\ single.target = Item(g, i)
          /\ single.isIntersecting
          /\ single.intersectionRatio >= 60 )
        => ActiveOf(g) = {i}

\* The last item of a gallery has been notified with ratio 1.0 and its
\* indicator is the only Active one of the gallery.
C10_Witness ==
    \E g \in AllIndicatorLists :
        /\ hg = g
        /\ single = [target |-> Item(g, NumItems), isIntersecting |-> TRUE, intersectionRatio |-> 100]
        /\ ActiveOf(g) = {NumItems}

\* C11: the script's run at load changes no indicator, and a gallery the
\* markup delivers with no indicator Active has none Active as long as its
\* callback has not handled a notification that reports intersecting with a
\* ratio of at least 0.6.
C11_OnlyHandlerChanges ==
    [][ /\ observing' # observing => Active' = Active
        /\ \A g \in AllIndicatorLists :
              (zeroStart[g] /\ ~qualified'[g]) => ActiveOf(g)' = {} ]_vars

\* The script has run, one gallery has an indicator Active after a
\* notification, and the other, delivered with none Active and not yet
\* notified of an intersection of 0.6 or more, still has none.
C11_Witness ==
    \E g \in AllIndicatorLists : \E h \in AllIndicatorLists \ {g} :
        /\ observing[g] # {}
        /\ zeroStart[g]
        /\ ~qualified[g]
        /\ ActiveOf(g) = {}
        /\ qualified[h]
        /\ ActiveOf(h) # {}

\* C12: however the batches of the two galleries are interleaved, each
\* gallery's indicators are what that gallery's own batches, handled in their
\* order with no other gallery's batch in between, make them.
C12_InterleavingIrrelevant ==
    \A g \in AllIndicatorLists : Active \cap DotsOf(g) = alone[g]

\* Both galleries have handled batches, and each has the indicator of its
\* own last qualifying item Active, a different index in each.
C12_Witness ==
    /\ lastTracked["A"] # 0
    /\ lastTracked["B"] # 0
    /\ lastTracked["A"] # lastTracked["B"]
    /\ ActiveOf("A") = {lastTracked["A"]}
    /\ ActiveOf("B") = {lastTracked["B"]}

(***************************************************************************)
(* Properties of the upload script.                                        *)
(***************************************************************************)
\* C9: every value the progress listener writes to the bar is an integer
\* percentage from 0 to 100.
C9_PercentInRange ==
    \A k \in 1..Len(wrote) : wrote[k].kind = "percent" /\ wrote[k].n \in 0..100

\* C13: the request is posted to the base path followed by "/upload/". When
\* the page path is P then "/upload" or "/upload/" in any spelling of upper
\* and lower case, P empty or beginning with a slash, it is posted to P then
\* "/upload/"; when the page path ends in neither, it is posted to "/upload/".
C13_PostedToBasePath ==
    posted # <<>> =>
        /\ \A k \in 0..Len(pathname) : \A w \in {"upload", "UpLoad"} :
              LET P == SubSeq(pathname, 1, k)
              IN  ( /\ pathname \in {P \o <<"/", w>>, P \o <<"/", w, "/">>}
                    /\ (P = <<>> \/ P[1] = "/") )
                  => posted = P \o <<"/", "upload", "/">>
        /\ ( \A k \in 0..Len(pathname) : \A w \in {"upload", "UpLoad"} :
                pathname \notin {SubSeq(pathname, 1, k) \o <<"/", w>>,
                                 SubSeq(pathname, 1, k) \o <<"/", w, "/">>} )
           => posted = <<"/", "upload", "/">>

\* The page at /pics/UpLoad has posted to /pics/upload/.
C13_Witness ==
    /\ requests # EmptyBag
    /\ pathname = <<"/", "pics", "/", "UpLoad">>
    /\ posted = <<"/", "pics", "/", "upload", "/">>

\* One write after another lowers the percentage shown: both are percentages
\* and the later is the smaller. "NaN%" is no percentage and compares with none.
Decreases(a, b) == a.kind = "percent" /\ b.kind = "percent" /\ b.n < a.n

\* C14: during one upload, over progress events whose loaded value never
\* decreases and never exceeds total, no write of that upload to the progress
\* bar shows a smaller percentage than its write before.
C14_PercentNeverDecreases ==
    \A k \in 1..Len(wrote) :
        ~Decreases(IF k = 1 THEN before ELSE wrote[k - 1], wrote[k])

\* After 55% for 22 bytes of 40, the event for 23 bytes has written 57%,
\* where line 24 falls short of the half of 57.5, and the upload goes on.
C14_Witness ==
    /\ ~complete
    /\ before = Percent(55)
    /\ wrote = <<Percent(57)>>

\* C15: once the listener has handled an event with loaded = total, the bar
\* shows exactly 100%, whatever the files' sizes sum to and whatever the
\* bar showed before.
C15_CompleteShowsHundred ==
    complete => (bar = Percent(100) /\ wrote[Len(wrote)] = Percent(100))

\* An event with loaded = total passed both tests of the listener, which had
\* written 67% before: it wrote a percentage, then 100% over it.
C15_Witness ==
    /\ complete
    /\ before = Percent(67)
    /\ Len(wrote) = 2
    /\ bar = Percent(100)

====
